---- MODULE Spec2Model ----
(***************************************************************************)
(* The supervisor of the LinkedIn content pipeline                          *)
(* (src/agents/supervisor.py): SupervisorAgent.run_workflow validates a    *)
(* request, builds a WorkflowState and threads it through the LangGraph    *)
(* nodes analyze_tone -> research_topic -> create_content ->               *)
(* generate_image -> finalize.  get_workflow_status projects a state to a  *)
(* per-stage label.                                                        *)
(*                                                                         *)
(* Strings the code measures or trims are sequences of characters; strings *)
(* the code searches (error messages) are sequences of whitespace-         *)
(* separated words; dicts are functions from key names to values.          *)
(***************************************************************************)
EXTENDS Integers, Sequences, FiniteSets, TLC

(* ------------------------------ bounds -------------------------------- *)
\* longest run of blanks put before / after the text of an input
MaxPad == 1
\* longest tone sample text (without the padding) a caller passes
MaxToneBody == 10
\* longest topic text (without the padding) a caller passes
MaxTopicBody == 3
\* run_workflow calls made in a row on one SupervisorAgent while the caller
\* still holds the state of the call before
MaxRuns == 2
\* calls of get_workflow_status / get_results_summary made on one state
MaxReads == 2

(* ------------------------- program constants -------------------------- *)
MinToneLen == 10
MinTopicLen == 3
TotalSteps == 4

(* ------------------------------ strings ------------------------------- *)
Blanks(n) == [i \in 1..n |-> " "]
Letters(n) == [i \in 1..n |-> "a"]

RECURSIVE LStrip(_)
LStrip(s) == IF s # << >> /\ Head(s) = " " THEN LStrip(Tail(s)) ELSE s

RECURSIVE RStrip(_)
RStrip(s) ==
    IF s # << >> /\ s[Len(s)] = " " THEN RStrip(SubSeq(s, 1, Len(s) - 1)) ELSE s

\* str.strip()
Strip(s) == RStrip(LStrip(s))

\* str.lower() on one word of a message
Lower(w) ==
    CASE w = "Tone" -> "tone"
      [] w = "Research" -> "research"
      [] w = "Content" -> "content"
      [] w = "Image" -> "image"
      [] w = "Workflow" -> "workflow"
      [] w = "Topic" -> "topic"
      [] OTHER -> w

\* s.lower() for a message held as a sequence of words
LowerAll(s) == [i \in DOMAIN s |-> Lower(s[i])]

\* `step in text` for a text held as a sequence of words: a step name holds
\* no blank, so it occurs in the text iff it occurs inside one word, and in
\* the vocabulary used here a word holds a step name only by being it
StepIn(step, text) == \E i \in DOMAIN text : text[i] = step

(* ------------------------------- inputs ------------------------------- *)
ToneSamples ==
    {Blanks(l) \o Letters(n) \o Blanks(t) :
        l \in 0..MaxPad, n \in 0..MaxToneBody, t \in 0..MaxPad}

Topics ==
    {Blanks(l) \o Letters(n) \o Blanks(t) :
        l \in 0..MaxPad, n \in 0..MaxTopicBody, t \in 0..MaxPad}

\* the language argument of a call; Omitted stands for a call without it
Omitted == "<omitted>"
LanguageArgs == {Omitted, "en", "es", "fr"}

\* the requests a caller makes: every tone sample with a topic that passes,
\* every topic with a tone sample that passes, every language argument with
\* a tone sample and a topic that pass, and requests that fail both checks
Requests ==
    LET Req(ts, tp, la) == [tone_sample |-> ts, topic |-> tp, language |-> la]
    IN  {Req(ts, Letters(MinTopicLen), Omitted) : ts \in ToneSamples}
            \cup {Req(Letters(MinToneLen), tp, Omitted) : tp \in Topics}
            \cup {Req(Letters(MinToneLen), Letters(MinTopicLen), la) : la \in LanguageArgs}
            \cup {Req(ts, tp, Omitted) : ts \in {<< >>, Blanks(MaxPad)},
                                         tp \in {<< >>, Blanks(MaxPad)}}

\* the requests of a call that follows another call on the same
\* SupervisorAgent: one that passes validation and one that does not
RerunRequests ==
    {[tone_sample |-> Letters(MinToneLen), topic |-> Letters(MinTopicLen),
      language |-> Omitted],
     [tone_sample |-> Blanks(MaxPad), topic |-> Letters(MinTopicLen),
      language |-> Omitted]}

\* the default `language: str = "en"` of the signature
LanguageParam(arg) == IF arg = Omitted THEN "en" ELSE arg

(* ------------------------------- dicts -------------------------------- *)
EmptyDict == [k \in {} |-> ""]

\* truth value of a dict: `if d`
Truthy(d) == DOMAIN d # {}

(* --------------------------- steps and nodes --------------------------- *)
\* the four step names, in the order of the `steps` dict of
\* get_workflow_status
StepOrder == <<"tone_analysis", "research", "content_creation", "image_generation">>
StepNames == {StepOrder[i] : i \in DOMAIN StepOrder}

StageNodes == {"analyze_tone", "research_topic", "create_content", "generate_image"}

\* workflow.set_entry_point
EntryPoint == "analyze_tone"

\* mutant of Successor: the edge from generate_image to finalize is missing
SuccessorDropsFinalize(n) ==
    CASE n = "analyze_tone" -> "research_topic"
      [] n = "research_topic" -> "create_content"
      [] n = "create_content" -> "generate_image"
      [] n = "generate_image" -> "END"
      [] n = "finalize" -> "END"

\* mutant of Successor: the edge out of analyze_tone leads past research_topic
SuccessorSkipsResearch(n) ==
    CASE n = "analyze_tone" -> "create_content"
      [] n = "research_topic" -> "create_content"
      [] n = "create_content" -> "generate_image"
      [] n = "generate_image" -> "finalize"
      [] n = "finalize" -> "END"

\* workflow.add_edge: the node that runs after `n`
Successor(n) ==
    CASE n = "analyze_tone" -> "research_topic"
      [] n = "research_topic" -> "create_content"
      [] n = "create_content" -> "generate_image"
      [] n = "generate_image" -> "finalize"
      [] n = "finalize" -> "END"

\* the step name a node writes to current_step and completed_steps
StepOf(n) ==
    CASE n = "analyze_tone" -> "tone_analysis"
      [] n = "research_topic" -> "research"
      [] n = "create_content" -> "content_creation"
      [] n = "generate_image" -> "image_generation"

\* the state field a node stores its stage's result in
ResultField(n) ==
    CASE n = "analyze_tone" -> "tone_analysis"
      [] n = "research_topic" -> "research_data"
      [] n = "create_content" -> "content_result"
      [] n = "generate_image" -> "image_result"

\* f"Tone analysis error: {...}" and its three siblings, up to the message
ErrorPrefix(n) ==
    CASE n = "analyze_tone" -> <<"Tone", "analysis", "error:">>
      [] n = "research_topic" -> <<"Research", "error:">>
      [] n = "create_content" -> <<"Content", "creation", "error:">>
      [] n = "generate_image" -> <<"Image", "generation", "error:">>

\* f"Tone analysis failed: {...}" and its three siblings, up to the message
FailedPrefix(n) ==
    CASE n = "analyze_tone" -> <<"Tone", "analysis", "failed:">>
      [] n = "research_topic" -> <<"Research", "failed:">>
      [] n = "create_content" -> <<"Content", "creation", "failed:">>
      [] n = "generate_image" -> <<"Image", "generation", "failed:">>

(* ------------------------------- stages ------------------------------- *)
\* str(e) of the faults a stage meets: one that names no step and one that
\* names a step
Messages == {<<"timeout">>, <<"tone_analysis", "missing">>}

\* texts the content model writes; the blank one is what an empty completion
\* leaves after _process_content
PostTexts == {"", "post"}

\* what the remote model / search / image service does inside a stage
ServiceOutcomes ==
    {[ok |-> TRUE, text |-> t] : t \in PostTexts}
        \cup {[ok |-> FALSE, msg |-> m] : m \in Messages}

ToneTooShort == <<"Tone", "sample", "must", "be", "at", "least", "10", "characters", "long">>
TopicTooShort == <<"Topic", "must", "be", "at", "least", "3", "characters", "long">>

\* ToneAnalysisAgent.analyze_tone
AnalyzeToneAgent(tone_sample, svc) ==
    IF tone_sample = << >> \/ Len(Strip(tone_sample)) < MinToneLen
    THEN [error |-> ToneTooShort, status |-> "error", tone_sample |-> tone_sample]
    ELSE IF svc.ok
    THEN [raw_analysis |-> "analysis", tone_sample |-> tone_sample,
          status |-> "completed", characteristics |-> "characteristics"]
    ELSE [error |-> svc.msg, status |-> "error", tone_sample |-> tone_sample]

\* ResearchAgent.research_topic
ResearchTopicAgent(topic, svc) ==
    IF topic = << >> \/ Len(Strip(topic)) < MinTopicLen
    THEN [error |-> TopicTooShort, status |-> "error", topic |-> topic]
    ELSE IF svc.ok
    THEN [topic |-> topic, search_results |-> "results", analysis |-> "analysis",
          status |-> "completed", insights |-> "insights", hashtags |-> "hashtags"]
    ELSE [error |-> svc.msg, status |-> "error", topic |-> topic]

\* ContentCreationAgent.create_content
CreateContentAgent(tone_analysis, research_data, topic, svc) ==
    IF svc.ok
    THEN [post_content |-> svc.text, original_content |-> svc.text, topic |-> topic,
          status |-> "completed", word_count |-> IF svc.text = "" THEN 0 ELSE 1,
          hashtags |-> "hashtags", call_to_action |-> "cta"]
    ELSE [error |-> svc.msg, status |-> "error", topic |-> topic]

\* ImageGenerationAgent.generate_image
GenerateImageAgent(post_content, topic, svc) ==
    IF svc.ok
    THEN [image_url |-> "url", image_data |-> "data", prompt_used |-> post_content,
          topic |-> topic, status |-> "completed", dimensions |-> "1024x1024",
          format |-> "PNG"]
    ELSE [error |-> svc.msg, status |-> "error", topic |-> topic]

\* mutant of StageArgs: generate_image never reads content_result and passes
\* the initial value of post_content
StageArgsNoPostText(n, st) ==
    CASE n = "analyze_tone" -> <<st.tone_sample>>
      [] n = "research_topic" -> <<st.topic>>
      [] n = "create_content" -> <<st.tone_analysis, st.research_data, st.topic>>
      [] n = "generate_image" -> <<"", st.topic>>

\* the arguments a node passes to its stage
StageArgs(n, st) ==
    CASE n = "analyze_tone" -> <<st.tone_sample>>
      [] n = "research_topic" -> <<st.topic>>
      [] n = "create_content" -> <<st.tone_analysis, st.research_data, st.topic>>
      [] n = "generate_image" ->
            <<IF Truthy(st.content_result) /\ "post_content" \in DOMAIN st.content_result
              THEN st.content_result.post_content ELSE "",
              st.topic>>

\* the dict the stage of node `n` returns for arguments `args`
StageResult(n, args, svc) ==
    CASE n = "analyze_tone" -> AnalyzeToneAgent(args[1], svc)
      [] n = "research_topic" -> ResearchTopicAgent(args[1], svc)
      [] n = "create_content" -> CreateContentAgent(args[1], args[2], args[3], svc)
      [] n = "generate_image" -> GenerateImageAgent(args[1], args[2], svc)

(* --------------------------- workflow state --------------------------- *)
WorkflowStateFields ==
    {"tone_sample", "topic", "language", "tone_analysis", "research_data",
     "content_result", "image_result", "current_step", "completed_steps",
     "errors", "status"}

\* mutant of ValidationError: the lengths are taken without strip()
ValidationErrorNoStrip(tone_sample, topic) ==
    IF tone_sample = << >> \/ Len(tone_sample) < MinToneLen THEN ToneTooShort
    ELSE IF topic = << >> \/ Len(topic) < MinTopicLen THEN TopicTooShort
    ELSE << >>

\* the two checks at the head of run_workflow: the message of the
\* ValueError raised, or << >> when the request passes
ValidationError(tone_sample, topic) ==
    IF tone_sample = << >> \/ Len(Strip(tone_sample)) < MinToneLen THEN ToneTooShort
    ELSE IF topic = << >> \/ Len(Strip(topic)) < MinTopicLen THEN TopicTooShort
    ELSE << >>

\* mutant of InitialState: current_step starts at the first step's name
InitialStateAtFirstStep(tone_sample, topic, language) ==
    [tone_sample |-> Strip(tone_sample), topic |-> Strip(topic), language |-> language,
     tone_analysis |-> EmptyDict, research_data |-> EmptyDict,
     content_result |-> EmptyDict, image_result |-> EmptyDict,
     current_step |-> "tone_analysis", completed_steps |-> << >>, errors |-> << >>,
     status |-> "starting"]

\* initial_state of run_workflow
InitialState(tone_sample, topic, language) ==
    [tone_sample |-> Strip(tone_sample), topic |-> Strip(topic), language |-> language,
     tone_analysis |-> EmptyDict, research_data |-> EmptyDict,
     content_result |-> EmptyDict, image_result |-> EmptyDict,
     current_step |-> "start", completed_steps |-> << >>, errors |-> << >>,
     status |-> "starting"]

\* the dict returned by the except clause of run_workflow
ErrorState(tone_sample, topic, language, msg) ==
    [tone_sample |-> tone_sample, topic |-> topic, language |-> language,
     tone_analysis |-> EmptyDict, research_data |-> EmptyDict,
     content_result |-> EmptyDict, image_result |-> EmptyDict,
     current_step |-> "error", completed_steps |-> << >>,
     errors |-> << <<"Workflow", "execution", "failed:">> \o msg >>,
     status |-> "error"]

\* mutant of NewRunState: the two lists of the state the SupervisorAgent
\* handled last are reused instead of new empty ones
NewRunStateKeepsLists(prev, tone_sample, topic, language) ==
    [InitialState(tone_sample, topic, language) EXCEPT
        !.completed_steps = prev.completed_steps, !.errors = prev.errors]

\* the state run_workflow hands to workflow.invoke, `prev` being the state of
\* the call before on the same SupervisorAgent: a new dict literal with new
\* lists, nothing of `prev` is read
NewRunState(prev, tone_sample, topic, language) ==
    InitialState(tone_sample, topic, language)

\* the classes `except Exception` catches, in the stage nodes and in
\* run_workflow
ExceptionTypes == {"ValueError", "RuntimeError"}

\* mutant of NodeCatches: `except ValueError` in the stage nodes
NodeCatchesValueErrorOnly(type) == type = "ValueError"

NodeCatches(type) == type \in ExceptionTypes

\* mutant of RunCatches: `except RuntimeError` in run_workflow
RunCatchesRuntimeOnly(type) == type = "RuntimeError"

RunCatches(type) == type \in ExceptionTypes

\* mutant of BeginStep: the nodes after the first write "starting"
BeginStepRestarts(st, n) ==
    [st EXCEPT !.current_step = StepOf(n),
               !.status = IF n = EntryPoint THEN "working" ELSE "starting"]

\* head of a stage node: current_step and status before the stage is called
BeginStep(st, n) == [st EXCEPT !.current_step = StepOf(n), !.status = "working"]

\* mutant of RecordResult: a step counts as completed only while no earlier
\* step has failed
RecordResultStopsAfterError(st, n, res) ==
    LET st1 == [st EXCEPT ![ResultField(n)] = res]
    IN  IF "error" \notin DOMAIN res
        THEN IF st.errors = << >>
             THEN [st1 EXCEPT !.completed_steps = Append(@, StepOf(n))]
             ELSE st1
        ELSE [st1 EXCEPT !.errors = Append(@, ErrorPrefix(n) \o res.error)]

\* mutant of RecordResult: insert(0, ...) instead of append
RecordResultPrepends(st, n, res) ==
    LET st1 == [st EXCEPT ![ResultField(n)] = res]
    IN  IF "error" \notin DOMAIN res
        THEN [st1 EXCEPT !.completed_steps = <<StepOf(n)>> \o @]
        ELSE [st1 EXCEPT !.errors = Append(@, ErrorPrefix(n) \o res.error)]

\* mutant of RecordResult: the step is appended to completed_steps before
\* the result is inspected
RecordResultAlwaysCompletes(st, n, res) ==
    LET st1 == [st EXCEPT ![ResultField(n)] = res,
                          !.completed_steps = Append(@, StepOf(n))]
    IN  IF "error" \notin DOMAIN res
        THEN st1
        ELSE [st1 EXCEPT !.errors = Append(@, ErrorPrefix(n) \o res.error)]

\* mutant of RecordResult: the result is stored only when it holds no error
RecordResultStoresSuccessOnly(st, n, res) ==
    IF "error" \notin DOMAIN res
    THEN [st EXCEPT ![ResultField(n)] = res,
                    !.completed_steps = Append(@, StepOf(n))]
    ELSE [st EXCEPT !.errors = Append(@, ErrorPrefix(n) \o res.error)]

\* body of the try of a stage node once the stage has returned `res`
RecordResult(st, n, res) ==
    LET st1 == [st EXCEPT ![ResultField(n)] = res]
    IN  IF "error" \notin DOMAIN res
        THEN [st1 EXCEPT !.completed_steps = Append(@, StepOf(n))]
        ELSE [st1 EXCEPT !.errors = Append(@, ErrorPrefix(n) \o res.error)]

\* mutant of RecordException: the except clause only logs
RecordExceptionSwallows(st, n, msg) == st

\* mutant of RecordException: insert(0, ...) instead of append
RecordExceptionPrepends(st, n, msg) ==
    [st EXCEPT !.errors = <<FailedPrefix(n) \o msg>> \o @]

\* except clause of a stage node
RecordException(st, n, msg) ==
    [st EXCEPT !.errors = Append(@, FailedPrefix(n) \o msg)]

\* mutant of FinalStatus: three completed steps already count as all
FinalStatusOffByOne(error_count, completed_count) ==
    IF completed_count >= TotalSteps - 1 THEN "completed"
    ELSE IF completed_count > 0 THEN "partially_completed"
    ELSE "failed"

\* mutant of FinalStatus: one completed step does not count as partial
FinalStatusNeedsTwo(error_count, completed_count) ==
    IF error_count = 0 /\ completed_count = TotalSteps THEN "completed"
    ELSE IF completed_count > 1 THEN "partially_completed"
    ELSE "failed"

\* mutant of FinalStatus: the first two results swapped
FinalStatusSwapped(error_count, completed_count) ==
    IF error_count = 0 /\ completed_count = TotalSteps THEN "partially_completed"
    ELSE IF completed_count > 0 THEN "completed"
    ELSE "failed"

\* mutant of FinalStatus: `>= 0` in the second test
FinalStatusNeverFailed(error_count, completed_count) ==
    IF error_count = 0 /\ completed_count = TotalSteps THEN "completed"
    ELSE IF completed_count >= 0 THEN "partially_completed"
    ELSE "failed"

\* the status finalize_workflow derives
FinalStatus(error_count, completed_count) ==
    IF error_count = 0 /\ completed_count = TotalSteps THEN "completed"
    ELSE IF completed_count > 0 THEN "partially_completed"
    ELSE "failed"

\* mutant of Finalize: the inputs are cleared once the run is done
FinalizeClearsInputs(st) ==
    [st EXCEPT !.current_step = "completed",
               !.status = FinalStatus(Len(st.errors), Len(st.completed_steps)),
               !.tone_sample = << >>, !.topic = << >>]

\* mutant of Finalize: current_step is left at the last stage
FinalizeKeepsStep(st) ==
    [st EXCEPT !.status = FinalStatus(Len(st.errors), Len(st.completed_steps))]

\* finalize_workflow
Finalize(st) ==
    [st EXCEPT !.current_step = "completed",
               !.status = FinalStatus(Len(st.errors), Len(st.completed_steps))]

(* --------------------------- status reporter -------------------------- *)
\* the value every entry of `steps` starts with
InitialLabel == "waiting"

\* first loop of get_workflow_status
RECURSIVE MarkCompleted(_, _)
MarkCompleted(steps, completed) ==
    IF completed = << >> THEN steps
    ELSE LET step == Head(completed)
         IN  MarkCompleted(IF step \in DOMAIN steps
                           THEN [steps EXCEPT ![step] = "completed"] ELSE steps,
                           Tail(completed))

\* the `current_step` update of get_workflow_status
MarkCurrent(steps, current_step) ==
    IF current_step \in DOMAIN steps /\ steps[current_step] # "completed"
    THEN [steps EXCEPT ![current_step] = "working"]
    ELSE steps

\* inner loop of the error pass: the first step, in dict order from position
\* i, whose name occurs in the lowered error becomes "error"
RECURSIVE MarkFirstMatch(_, _, _)
MarkFirstMatch(steps, lowered, i) ==
    IF i > Len(StepOrder) THEN steps
    ELSE IF StepIn(StepOrder[i], lowered) THEN [steps EXCEPT ![StepOrder[i]] = "error"]
    ELSE MarkFirstMatch(steps, lowered, i + 1)

\* outer loop of the error pass
RECURSIVE MarkErrors(_, _)
MarkErrors(steps, errors) ==
    IF errors = << >> THEN steps
    ELSE MarkErrors(MarkFirstMatch(steps, LowerAll(Head(errors)), 1), Tail(errors))

\* SupervisorAgent.get_workflow_status
GetWorkflowStatus(st) ==
    LET steps == [s \in StepNames |-> InitialLabel]
    IN  MarkErrors(MarkCurrent(MarkCompleted(steps, st.completed_steps),
                               st.current_step),
                   st.errors)

\* ToneAnalysisAgent.get_tone_summary; the text built from the
\* characteristics is kept as the characteristics themselves
GetToneSummary(analysis) ==
    IF "error" \in DOMAIN analysis THEN <<"Error:">> \o analysis.error
    ELSE <<"tone", analysis.characteristics>>

\* ResearchAgent.get_research_summary
GetResearchSummary(research_data) ==
    IF "error" \in DOMAIN research_data THEN <<"Error:">> \o research_data.error
    ELSE <<"Found", research_data.insights, "about", research_data.topic>>

\* ContentCreationAgent.get_content_summary
GetContentSummary(content_result) ==
    IF "error" \in DOMAIN content_result THEN <<"Error:">> \o content_result.error
    ELSE <<"Generated", content_result.word_count, "word", "post", "with",
           content_result.hashtags>>

\* ImageGenerationAgent.get_image_summary
GetImageSummary(image_result) ==
    IF "error" \in DOMAIN image_result THEN <<"Error:">> \o image_result.error
    ELSE <<"Generated", image_result.dimensions, "image", "for", "LinkedIn", "post">>

\* the key of summary["results"] for a result field, and its summarizer
SummaryKey(field) ==
    CASE field = "tone_analysis" -> "tone_analysis"
      [] field = "research_data" -> "research"
      [] field = "content_result" -> "content"
      [] field = "image_result" -> "image"

FieldOfKey(key) ==
    CASE key = "tone_analysis" -> "tone_analysis"
      [] key = "research" -> "research_data"
      [] key = "content" -> "content_result"
      [] key = "image" -> "image_result"

Summarize(key, result) ==
    CASE key = "tone_analysis" -> GetToneSummary(result)
      [] key = "research" -> GetResearchSummary(result)
      [] key = "content" -> GetContentSummary(result)
      [] key = "image" -> GetImageSummary(result)

ResultFields == {"tone_analysis", "research_data", "content_result", "image_result"}

\* SupervisorAgent.get_results_summary: the dict it returns
GetResultsSummary(st) ==
    [status |-> st.status,
     completed_steps |-> Len(st.completed_steps),
     total_steps |-> TotalSteps,
     errors |-> st.errors,
     results |-> [key \in {SummaryKey(f) : f \in {g \in ResultFields : Truthy(st[g])}}
                    |-> Summarize(key, st[FieldOfKey(key)])]]

\* mutant of StateAfterGetWorkflowStatus: the first loop consumes
\* completed_steps with pop()
StateAfterGetWorkflowStatusPops(st) == [st EXCEPT !.completed_steps = << >>]

\* what get_workflow_status leaves of the state it was given: it assigns
\* only to its local `steps`
StateAfterGetWorkflowStatus(st) == st

\* mutant of StateAfterGetResultsSummary: the errors are moved into the
\* summary, errors.clear() on the state
StateAfterGetResultsSummaryDrains(st) == [st EXCEPT !.errors = << >>]

\* what get_results_summary leaves of the state it was given: it assigns
\* only to its local `summary`
StateAfterGetResultsSummary(st) == st

(* ------------------------------ front end ----------------------------- *)
\* the keys Config.validate_keys requires
RequiredKeys == {"OPENAI_API_KEY", "TAVILY_API_KEY"}

\* Config.validate_keys for an environment in which the keys `env` are set:
\* TRUE when it returns, FALSE when it raises ValueError
ValidateKeys(env) == \A k \in RequiredKeys : k \in env

\* the options of the language selectbox
UILanguages == {"en", "es"}

\* mutant of UIInputError: the lengths are taken without strip()
UIInputErrorNoStrip(tone_sample, topic) ==
    IF tone_sample = << >> \/ Len(tone_sample) < MinToneLen THEN "tone_sample"
    ELSE IF topic = << >> \/ Len(topic) < MinTopicLen THEN "topic"
    ELSE "none"

\* the two checks of main on a click of the generate button: the input the
\* st.error is about, or "none"
UIInputError(tone_sample, topic) ==
    IF tone_sample = << >> \/ Len(Strip(tone_sample)) < MinToneLen THEN "tone_sample"
    ELSE IF topic = << >> \/ Len(Strip(topic)) < MinTopicLen THEN "topic"
    ELSE "none"

\* `for agent in agent_statuses: agent_statuses[agent] = "waiting"`
ResetStatuses(agent_statuses) == [s \in DOMAIN agent_statuses |-> "waiting"]

\* the loop of run_workflow_with_real_time_progress over `steps` once
\* run_workflow has returned workflow_result
AgentStatusesAfterRun(agent_statuses, workflow_result) ==
    [step \in DOMAIN agent_statuses |->
        IF \E i \in DOMAIN workflow_result.completed_steps :
                workflow_result.completed_steps[i] = step
        THEN "completed"
        ELSE IF \E i \in DOMAIN workflow_result.errors :
                    StepIn(step, LowerAll(workflow_result.errors[i]))
        THEN "error"
        ELSE agent_statuses[step]]

\* the front end at its start, in an environment with the keys `env`:
\* initialize_session_state
InitialUI(env) ==
    [env |-> env,
     agent_statuses |-> [s \in StepNames |-> "waiting"],
     script |-> "none"]

(* ------------------------------- state -------------------------------- *)
VARIABLES
    pc,        \* where the caller of run_workflow stands: "idle" (no call in
               \* progress and no result held), "ready" (a node is about to
               \* run), "calling" (a stage call is in flight), "returned",
               \* "raised"
    node,      \* the graph node that runs next, or is running
    state,     \* the WorkflowState of the current call
    request,   \* the arguments of the current call
    invoked,   \* the stage calls of the current run, in order, with arguments
    outcome,   \* per step of the current run: how its stage call ended
    returns,   \* what each stage call of the current run returned or raised
    runs,      \* calls made in a row while the caller held the state before
    reads,     \* the reporter calls made on the current value of `state`
    ui         \* the Streamlit front end: the API keys of its environment,
               \* st.session_state.agent_statuses, and where the script run
               \* of main that handles a click on the generate button stands

vars == <<pc, node, state, request, invoked, outcome, returns, runs, reads, ui>>

\* no reporter call made on the current state yet
NoReads == [calls |-> 0, last |-> "none", out |-> << >>]

NoOutcome == [s \in StepNames |-> "none"]

\* what `state` and `request` hold while no call is in progress
NoState == [f \in WorkflowStateFields |-> << >>]
NoRequest == [tone_sample |-> << >>, topic |-> << >>, language |-> Omitted]

Init ==
    /\ pc = "idle"
    /\ node = "END"
    /\ state = NoState
    /\ request = NoRequest
    /\ invoked = << >>
    /\ outcome = NoOutcome
    /\ returns = << >>
    /\ runs = 0
    /\ reads = NoReads
    /\ ui = InitialUI(RequiredKeys)

(* ------------------------------ actions ------------------------------- *)
\* run_workflow up to the first node: validation, then either the except
\* clause (the ValueError is caught and the error state returned) or
\* initial_state handed to the graph
RunWorkflow(tone_sample, topic, lang) ==
    /\ pc \in {"idle", "returned"}
    /\ request' = [tone_sample |-> tone_sample, topic |-> topic, language |-> lang]
    /\ invoked' = << >>
    /\ outcome' = NoOutcome
    /\ returns' = << >>
    /\ runs' = runs + 1
    /\ reads' = NoReads
    /\ LET language == LanguageParam(lang)
           msg == ValidationError(tone_sample, topic)
       IN  IF msg # << >>
           THEN IF RunCatches("ValueError")
                THEN /\ state' = ErrorState(tone_sample, topic, language, msg)
                     /\ pc' = "returned"
                     /\ node' = "END"
                ELSE /\ pc' = "raised"
                     /\ node' = "END"
                     /\ UNCHANGED state
           ELSE /\ state' = NewRunState(state, tone_sample, topic, language)
                /\ pc' = "ready"
                /\ node' = EntryPoint

\* a stage node from its first line to the call of its stage
EnterNode ==
    /\ pc = "ready"
    /\ node \in StageNodes
    /\ state' = BeginStep(state, node)
    /\ invoked' = Append(invoked, [step |-> StepOf(node), args |-> StageArgs(node, state)])
    /\ pc' = "calling"
    /\ reads' = NoReads
    /\ UNCHANGED <<node, request, outcome, returns, runs, ui>>

\* the stage returns a dict; the node records it and the graph moves on
StageReturns(svc) ==
    /\ pc = "calling"
    /\ LET res == StageResult(node, invoked[Len(invoked)].args, svc)
       IN  /\ state' = RecordResult(state, node, res)
           /\ outcome' = [outcome EXCEPT ![StepOf(node)] =
                              IF "error" \in DOMAIN res THEN "error" ELSE "success"]
           /\ returns' = Append(returns, [kind |-> "returned", res |-> res])
    /\ node' = Successor(node)
    /\ pc' = "ready"
    /\ reads' = NoReads
    /\ UNCHANGED <<request, invoked, runs, ui>>

\* the stage call raises: the except clause of the node records it; what the
\* node does not catch reaches the except clause of run_workflow
StageRaises(type, msg) ==
    /\ pc = "calling"
    /\ outcome' = [outcome EXCEPT ![StepOf(node)] = "raised"]
    /\ returns' = Append(returns, [kind |-> "raised", msg |-> msg])
    /\ reads' = NoReads
    /\ IF NodeCatches(type)
       THEN /\ state' = RecordException(state, node, msg)
            /\ node' = Successor(node)
            /\ pc' = "ready"
       ELSE IF RunCatches(type)
       THEN /\ state' = ErrorState(request.tone_sample, request.topic,
                                   LanguageParam(request.language), msg)
            /\ node' = "END"
            /\ pc' = "returned"
       ELSE /\ pc' = "raised"
            /\ node' = "END"
            /\ UNCHANGED state
    /\ UNCHANGED <<request, invoked, runs, ui>>

\* the finalize node, after which invoke and run_workflow return
FinalizeWorkflow ==
    /\ pc = "ready"
    /\ node = "finalize"
    /\ state' = Finalize(state)
    /\ node' = Successor(node)
    /\ pc' = "returned"
    /\ reads' = NoReads
    /\ UNCHANGED <<request, invoked, outcome, returns, runs, ui>>

\* the script run of the caller ends: its local workflow_result is dropped,
\* the SupervisorAgent stays in the session for the next call
Release ==
    /\ pc = "returned"
    /\ pc' = "idle"
    /\ state' = NoState
    /\ request' = NoRequest
    /\ invoked' = << >>
    /\ outcome' = NoOutcome
    /\ returns' = << >>
    /\ runs' = 0
    /\ reads' = NoReads
    /\ UNCHANGED <<node, ui>>

\* a caller calls run_workflow with one of the requests
CallRunWorkflow ==
    /\ pc = "idle"
    /\ \E req \in Requests : RunWorkflow(req.tone_sample, req.topic, req.language)
    /\ UNCHANGED ui

\* the caller calls run_workflow again on the same SupervisorAgent while it
\* still holds the state the call before returned
Rerun ==
    /\ pc = "returned"
    /\ runs < MaxRuns
    /\ \E req \in RerunRequests : RunWorkflow(req.tone_sample, req.topic, req.language)
    /\ UNCHANGED ui

\* a caller that holds the state (in flight or returned) calls
\* get_workflow_status on it
CallGetWorkflowStatus ==
    /\ pc \in {"ready", "calling", "returned"}
    /\ reads.calls < MaxReads
    /\ reads' = [calls |-> reads.calls + 1, last |-> "status",
                 out |-> GetWorkflowStatus(state)]
    /\ state' = StateAfterGetWorkflowStatus(state)
    /\ UNCHANGED <<pc, node, request, invoked, outcome, returns, runs, ui>>

\* a caller that holds the state calls get_results_summary on it
CallGetResultsSummary ==
    /\ pc \in {"ready", "calling", "returned"}
    /\ reads.calls < MaxReads
    /\ reads' = [calls |-> reads.calls + 1, last |-> "summary",
                 out |-> GetResultsSummary(state)]
    /\ state' = StateAfterGetResultsSummary(state)
    /\ UNCHANGED <<pc, node, request, invoked, outcome, returns, runs, ui>>

\* the stage call in flight returns
StageCallReturns ==
    /\ pc = "calling"
    /\ \E svc \in ServiceOutcomes : StageReturns(svc)

\* the stage call in flight raises
StageCallRaises ==
    /\ pc = "calling"
    /\ \E type \in ExceptionTypes, msg \in Messages : StageRaises(type, msg)

(* ------------------------- front end actions -------------------------- *)
\* a script run of main: validate_api_keys fails and st.stop() ends the run
UIStop ==
    /\ pc = "idle"
    /\ ~ValidateKeys(ui.env)
    /\ ui' = [ui EXCEPT !.script = "stopped"]
    /\ UNCHANGED <<pc, node, state, request, invoked, outcome, returns, runs, reads>>

\* a click on the generate button with inputs that fail one of the two
\* checks of main: st.error, no run
UIReject ==
    /\ pc = "idle"
    /\ ValidateKeys(ui.env)
    /\ \E req \in Requests :
          /\ UIInputError(req.tone_sample, req.topic) # "none"
          /\ ui' = [ui EXCEPT !.script = "rejected"]
    /\ UNCHANGED <<pc, node, state, request, invoked, outcome, returns, runs, reads>>

\* a click on the generate button with inputs that pass: the statuses are
\* reset and run_workflow_with_real_time_progress calls run_workflow with
\* the language of the session
UIRun ==
    /\ pc = "idle"
    /\ ValidateKeys(ui.env)
    /\ \E req \in Requests, language \in UILanguages :
          /\ UIInputError(req.tone_sample, req.topic) = "none"
          /\ RunWorkflow(req.tone_sample, req.topic, language)
    /\ ui' = [ui EXCEPT !.script = "running",
                        !.agent_statuses = ResetStatuses(@)]

\* run_workflow has returned to run_workflow_with_real_time_progress, which
\* writes the statuses of the steps
UIUpdateStatuses ==
    /\ pc = "returned"
    /\ ui.script = "running"
    /\ ui' = [ui EXCEPT !.script = "updated",
                        !.agent_statuses = AgentStatusesAfterRun(@, state)]
    /\ UNCHANGED <<pc, node, state, request, invoked, outcome, returns, runs, reads>>

\* main shows the result and the script run ends: workflow_result is
\* dropped, st.session_state stays
UIEndScript ==
    /\ pc = "returned"
    /\ ui.script = "updated"
    /\ pc' = "idle"
    /\ state' = NoState
    /\ request' = NoRequest
    /\ invoked' = << >>
    /\ outcome' = NoOutcome
    /\ returns' = << >>
    /\ runs' = 0
    /\ reads' = NoReads
    /\ ui' = [ui EXCEPT !.script = "none"]
    /\ UNCHANGED node

Next ==
    \/ CallRunWorkflow
    \/ EnterNode
    \/ StageCallReturns
    \/ StageCallRaises
    \/ FinalizeWorkflow
    \/ Release

Spec == Init /\ [][Next]_vars

\* the runs of Spec with a caller that reads the state through the two
\* reporter methods
ReporterNext == Next \/ CallGetWorkflowStatus \/ CallGetResultsSummary

ReporterSpec == Init /\ [][ReporterNext]_vars

\* the runs of Spec, and calls that follow one another without the caller
\* having dropped the state of the call before
RerunNext == Next \/ Rerun

RerunSpec == Init /\ [][RerunNext]_vars

\* the front end starts in any environment
UIInit ==
    /\ pc = "idle"
    /\ node = "END"
    /\ state = NoState
    /\ request = NoRequest
    /\ invoked = << >>
    /\ outcome = NoOutcome
    /\ returns = << >>
    /\ runs = 0
    /\ reads = NoReads
    /\ \E env \in SUBSET RequiredKeys : ui = InitialUI(env)

\* the runs started from the front end
UINext ==
    \/ UIStop
    \/ UIReject
    \/ UIRun
    \/ EnterNode
    \/ StageCallReturns
    \/ StageCallRaises
    \/ FinalizeWorkflow
    \/ UIUpdateStatuses
    \/ UIEndScript

UISpec == UIInit /\ [][UINext]_vars

\* the runs of Spec in which workflow.invoke keeps executing the graph (a
\* node that can start does start, it runs on the thread of the caller) and
\* every stage call comes back, by returning or by raising
LiveSpec ==
    /\ Spec
    /\ WF_vars(EnterNode)
    /\ WF_vars(FinalizeWorkflow)
    /\ WF_vars(StageCallReturns \/ StageCallRaises)

(* ----------------------- vocabulary of the claims ---------------------- *)
\* the text of s between its first and its last non-blank character
Trimmed(s) ==
    LET idx == {i \in DOMAIN s : s[i] # " "}
    IN  IF idx = {} THEN << >>
        ELSE SubSeq(s, CHOOSE i \in idx : \A j \in idx : i <= j,
                       CHOOSE i \in idx : \A j \in idx : i >= j)

\* the current call's request passes validation as the specification words it
RequestValid ==
    /\ Len(Trimmed(request.tone_sample)) >= MinToneLen
    /\ Len(Trimmed(request.topic)) >= MinTopicLen

InSeq(x, seq) == \E i \in DOMAIN seq : seq[i] = x

InvokedSteps == [i \in DOMAIN invoked |-> invoked[i].step]

Failed(s) == outcome[s] \in {"error", "raised"}

FinalStatuses == {"completed", "partially_completed", "failed"}

(* ------------------------------- claims ------------------------------- *)
\* C1: for a request that passes validation, the state run_workflow returns
\* has current_step at the terminal sentinel "completed" and a final status
\* (completed, partially_completed or failed), whatever the stages did.
C1_TerminalOnReturn ==
    (pc = "returned" /\ RequestValid) =>
        /\ state.current_step = "completed"
        /\ state.status \in FinalStatuses
        /\ state.status \notin {"starting", "working"}

C1_Witness ==
    /\ pc = "returned"
    /\ RequestValid
    /\ outcome["tone_analysis"] = "raised"
    /\ outcome["research"] = "error"
    /\ outcome["content_creation"] = "success"
    /\ outcome["image_generation"] = "success"
    /\ state.status = "partially_completed"

\* C2: in every returned state, status is "completed" exactly when errors is
\* empty and all four step names are in completed_steps.
C2_CompletedIff ==
    pc = "returned" =>
        (state.status = "completed" <=>
            /\ state.errors = << >>
            /\ \A s \in StepNames : InSeq(s, state.completed_steps))

C2_Witness ==
    /\ pc = "returned"
    /\ state.status = "completed"
    /\ Len(state.completed_steps) = 4

\* C3 as stated: in every returned state, the validation-error state
\* included, status is "failed" exactly when completed_steps is empty.
C3_FailedIffOriginal ==
    pc = "returned" => (state.status = "failed" <=> state.completed_steps = << >>)

\* C3 as amended: for a request that passes validation, the returned status
\* is "failed" exactly when completed_steps is empty; the state returned for
\* a rejected request has empty completed_steps and status "error".
C3_FailedIffAmended ==
    pc = "returned" =>
        IF RequestValid
        THEN state.status = "failed" <=> state.completed_steps = << >>
        ELSE state.status = "error" /\ state.completed_steps = << >>

C3_Witness ==
    /\ pc = "returned"
    /\ RequestValid
    /\ state.status = "failed"
    /\ Len(state.errors) = 4

\* C4: in every finished run, status is "partially_completed" exactly when
\* the number of completed steps is strictly between 0 and 4, whatever the
\* number of errors.
C4_PartialIff ==
    pc = "returned" =>
        (state.status = "partially_completed" <=>
            (0 < Len(state.completed_steps) /\ Len(state.completed_steps) < 4))

C4_Witness ==
    /\ pc = "returned"
    /\ state.status = "partially_completed"
    /\ Len(state.completed_steps) = 1
    /\ Len(state.errors) = 3

\* C5: when the trimmed tone sample has fewer than 10 characters or the
\* trimmed topic fewer than 3, run_workflow returns at once without
\* raising, calls no stage, and returns empty completed_steps, one
\* validation message in errors and the status "error".
C5_RejectedRequest ==
    (pc # "idle" /\ ~RequestValid) =>
        /\ pc = "returned"
        /\ invoked = << >>
        /\ outcome = NoOutcome
        /\ state.completed_steps = << >>
        /\ Len(state.errors) = 1
        /\ state.errors[1] \in {<<"Workflow", "execution", "failed:">> \o ToneTooShort,
                                <<"Workflow", "execution", "failed:">> \o TopicTooShort}
        /\ state.status = "error"
        /\ state.current_step = "error"

\* a tone sample of 10 or more characters of which fewer than 10 remain
\* after trimming
C5_Witness ==
    /\ pc = "returned"
    /\ Len(request.tone_sample) >= MinToneLen
    /\ Len(Trimmed(request.tone_sample)) < MinToneLen
    /\ state.status = "error"

\* C6: run_workflow never lets an exception reach its caller and every state
\* it returns has all eleven WorkflowState fields, for every request and for
\* stages that return a result, return an error dict or raise.
C6_AlwaysReturnsFullState ==
    /\ pc # "raised"
    /\ pc = "returned" =>
          /\ DOMAIN state = WorkflowStateFields
          /\ Cardinality(DOMAIN state) = 11

C6_Witness ==
    /\ pc = "returned"
    /\ outcome["tone_analysis"] = "raised"
    /\ outcome["research"] = "success"
    /\ outcome["content_creation"] = "raised"
    /\ outcome["image_generation"] = "error"

\* C7: in a run of a valid request the stage calls made so far are always a
\* prefix of tone_analysis, research, content_creation, image_generation;
\* a stage is called only once every earlier call has ended and been
\* recorded; finalization comes after the image call has ended; and on
\* return each of the four stages has been called exactly once.
C7_FixedOrderOnce ==
    /\ Len(invoked) <= Len(StepOrder)
    /\ \A i \in DOMAIN invoked :
          /\ invoked[i].step = StepOrder[i]
          /\ (i < Len(invoked) \/ pc # "calling") <=> outcome[StepOrder[i]] # "none"
    /\ Len(state.completed_steps) + Len(state.errors) =
          IF pc = "returned" /\ ~RequestValid THEN 1
          ELSE Cardinality({s \in StepNames : outcome[s] # "none"})
    /\ (pc = "returned" /\ RequestValid) =>
          /\ InvokedSteps = StepOrder
          /\ \A s \in StepNames : outcome[s] # "none"
          /\ state.current_step = "completed"
    /\ (pc # "idle" /\ state.current_step = "completed") =>
          outcome["image_generation"] # "none"

C7_Witness ==
    /\ pc = "returned"
    /\ RequestValid
    /\ InvokedSteps = StepOrder
    /\ outcome["research"] = "error"
    /\ outcome["image_generation"] = "success"

\* C8: in a returned run of a valid request every stage has been called
\* once, whichever stages failed, and completed_steps holds exactly the
\* steps whose call succeeded: after a failed tone stage it can be any
\* subset of the three later steps.
C8_NoShortCircuit ==
    (pc = "returned" /\ RequestValid) =>
        \A s \in StepNames :
            /\ Cardinality({i \in DOMAIN invoked : invoked[i].step = s}) = 1
            /\ InSeq(s, state.completed_steps) <=> outcome[s] = "success"

C8_Witness ==
    /\ pc = "returned"
    /\ RequestValid
    /\ Failed("tone_analysis")
    /\ state.completed_steps = <<"research", "content_creation", "image_generation">>

\* C9: in every reachable state, len(completed_steps) + len(errors) <= 4.
C9_AtMostFourOutcomes ==
    Len(state.completed_steps) + Len(state.errors) <= 4

\* between the end of the image stage and finalization, four outcomes held
C9_Witness ==
    /\ pc = "ready"
    /\ node = "finalize"
    /\ Len(state.completed_steps) = 2
    /\ Len(state.errors) = 2

\* C10: get_workflow_status of the initial state run_workflow builds, before
\* any stage ran, reports all four steps as "waiting".
C10_FreshStateAllWaiting ==
    (pc = "ready" /\ node = EntryPoint /\ invoked = << >>) =>
        \A s \in StepNames : GetWorkflowStatus(state)[s] = "waiting"

C10_Witness ==
    /\ pc = "ready"
    /\ node = EntryPoint
    /\ invoked = << >>
    /\ state.status = "starting"
    /\ state.current_step = "start"
    /\ GetWorkflowStatus(state) = [s \in StepNames |-> "waiting"]

C12_ReportersReadOnly ==
    [][(reads'.calls = reads.calls + 1) =>
          /\ state' = state
          /\ \A f \in WorkflowStateFields : state'[f] = state[f]
          /\ DOMAIN state' = DOMAIN state]_vars

\* two reporter calls were made while the research stage was in flight after a
\* completed tone stage
C12_Witness ==
    /\ pc = "calling"
    /\ node = "research_topic"
    /\ reads.calls = 2
    /\ reads.last = "status"
    /\ state.completed_steps = <<"tone_analysis">>
    /\ state.status = "working"

\* C13: in every finished state of a run, get_workflow_status reports
\* "error" for each stage whose failure the run recorded in errors.
C13_FailedStageReportedError ==
    (pc = "returned" /\ RequestValid) =>
        \A s \in StepNames : Failed(s) => GetWorkflowStatus(state)[s] = "error"

\* C14: get_workflow_status reports every step named in completed_steps as
\* "completed", whatever errors holds.
C14_CompletedNeverDowngraded ==
    pc \in {"ready", "calling", "returned"} =>
        \A s \in StepNames :
            InSeq(s, state.completed_steps) => GetWorkflowStatus(state)[s] = "completed"

\* position of a step in the fixed order
StepIndex(s) == CHOOSE i \in DOMAIN StepOrder : StepOrder[i] = s

\* the stage call of step s in this run has ended by returning a dict
\* without an "error" key / has ended in a failure
ReturnedSuccess(s) ==
    /\ StepIndex(s) <= Len(returns)
    /\ returns[StepIndex(s)].kind = "returned"
    /\ "error" \notin DOMAIN returns[StepIndex(s)].res

EndedInFailure(s) == StepIndex(s) <= Len(returns) /\ ~ReturnedSuccess(s)

\* the steps of this run that ended in a failure, in order
FailedSteps == SelectSeq(StepOrder, EndedInFailure)

\* the result field of step s as this run's own stage call left it
OwnResult(s) ==
    IF StepIndex(s) <= Len(returns) /\ returns[StepIndex(s)].kind = "returned"
    THEN returns[StepIndex(s)].res
    ELSE EmptyDict

\* the errors entry this run's own failure of step s produces
OwnError(s) ==
    LET r == returns[StepIndex(s)]
        n == CHOOSE m \in StageNodes : StepOf(m) = s
    IN  IF r.kind = "returned" THEN ErrorPrefix(n) \o r.res.error
        ELSE FailedPrefix(n) \o r.msg

\* C15: whatever runs came before on the same SupervisorAgent, the
\* completed_steps, errors, result fields and status of a run are those its
\* own request and its own stage outcomes give.
C15_RunsIndependent ==
    pc \in {"ready", "calling", "returned"} =>
        IF RequestValid
        THEN /\ state.completed_steps = SelectSeq(StepOrder, ReturnedSuccess)
             /\ state.errors = [i \in DOMAIN FailedSteps |-> OwnError(FailedSteps[i])]
             /\ \A n \in StageNodes : state[ResultField(n)] = OwnResult(StepOf(n))
             /\ pc = "returned" =>
                   state.status =
                       IF \A s \in StepNames : ReturnedSuccess(s) THEN "completed"
                       ELSE IF \E s \in StepNames : ReturnedSuccess(s)
                            THEN "partially_completed"
                       ELSE "failed"
        ELSE /\ state.completed_steps = << >>
             /\ Len(state.errors) = 1
             /\ \A f \in ResultFields : state[f] = EmptyDict
             /\ state.status = "error"

\* a second run in a row has returned with all four steps completed
C15_Witness ==
    /\ pc = "returned"
    /\ runs = 2
    /\ RequestValid
    /\ state.errors = << >>
    /\ state.completed_steps = StepOrder
    /\ state.status = "completed"

\* C16: the language stored in the WorkflowState is always "en" or "es";
\* an omitted or unrecognized language argument gives "en".
C16_LanguageEnumerated ==
    pc \in {"ready", "calling", "returned"} =>
        /\ state.language \in {"en", "es"}
        /\ request.language \notin {"en", "es"} => state.language = "en"

\* place of a status on the path starting -> working -> final
StatusRank(status) ==
    CASE status = "starting" -> 0
      [] status = "working" -> 1
      [] status \in FinalStatuses \cup {"error"} -> 2

\* C17: within one run the status only moves forward along starting ->
\* working -> {completed, partially_completed, failed}: it never goes back to
\* "starting" and a final status, once set, is never changed.
C17_StatusForwardOnly ==
    [][(runs' = runs /\ pc # "idle" /\ pc' # "idle") =>
          /\ StatusRank(state'.status) >= StatusRank(state.status)
          /\ StatusRank(state.status) = 2 => state'.status = state.status
          /\ state'.status = "starting" => state.status = "starting"]_vars

\* a finished run on whose final state a reporter was called
C17_Witness ==
    /\ pc = "returned"
    /\ RequestValid
    /\ state.status = "partially_completed"
    /\ reads.calls = 1

\* C18 as stated: in every reachable state of a run, status is "completed"
\* exactly when errors is empty and completed_steps has 4 entries.
C18_CompletedIffAlwaysOriginal ==
    pc \in {"ready", "calling", "returned"} =>
        (state.status = "completed" <=>
            (Len(state.errors) = 0 /\ Len(state.completed_steps) = 4))

\* C18 as amended: in every reachable state of a run, status "completed"
\* implies that errors is empty and completed_steps has 4 entries; the
\* converse holds once finalize_workflow has run, not between the end of the
\* image stage and finalization, where status is still "working".
C18_CompletedIffAmended ==
    pc \in {"ready", "calling", "returned"} =>
        /\ state.status = "completed" =>
              (Len(state.errors) = 0 /\ Len(state.completed_steps) = 4)
        /\ (Len(state.errors) = 0 /\ Len(state.completed_steps) = 4) =>
              state.status = IF pc = "returned" THEN "completed" ELSE "working"

\* all four stages succeeded and finalize_workflow has not run yet
C18_Witness ==
    /\ pc = "ready"
    /\ node = "finalize"
    /\ state.errors = << >>
    /\ Len(state.completed_steps) = 4
    /\ state.status = "working"

\* a step name followed by a colon, as one word
StepColon(s) ==
    CASE s = "tone_analysis" -> "tone_analysis:"
      [] s = "research" -> "research:"
      [] s = "content_creation" -> "content_creation:"
      [] s = "image_generation" -> "image_generation:"

\* C19: the errors entry of a stage that returned a failure is
\* "<stage>: <message>", <stage> being the step name as completed_steps and
\* get_workflow_status use it.
C19_ErrorEntryForm ==
    (pc \in {"ready", "calling", "returned"} /\ RequestValid) =>
        \A i \in DOMAIN state.errors :
            (i <= Len(FailedSteps) /\ outcome[FailedSteps[i]] = "error") =>
                state.errors[i] =
                    <<StepColon(FailedSteps[i])>> \o
                        returns[StepIndex(FailedSteps[i])].res.error

Succeeded(s) == outcome[s] = "success"

\* C20: in every reachable state completed_steps has no duplicates, follows
\* the fixed order of the steps, and holds exactly the steps executed so far
\* whose stage call succeeded.
C20_CompletedStepsExact ==
    /\ \A i, j \in DOMAIN state.completed_steps :
          i < j => StepIndex(state.completed_steps[i]) < StepIndex(state.completed_steps[j])
    /\ \A s \in StepNames : InSeq(s, state.completed_steps) <=> Succeeded(s)
    /\ state.completed_steps = SelectSeq(StepOrder, Succeeded)

\* the image stage is in flight after a failed tone, a completed research and
\* a completed content stage
C20_Witness ==
    /\ pc = "calling"
    /\ node = "generate_image"
    /\ Failed("tone_analysis")
    /\ state.completed_steps = <<"research", "content_creation">>

\* the steps whose stage call has ended in a failure, as a set
FailedSet(o) == {s \in StepNames : o[s] \in {"error", "raised"}}

\* C21: during a run errors is append-only: at every step the previous
\* contents are a prefix of the new contents, one entry is added exactly when
\* a stage fails, and the entries stand in the order the failures occurred.
C21_ErrorsAppendOnly ==
    [][(pc \in {"ready", "calling"} /\ pc' \in {"ready", "calling", "returned"}) =>
          /\ Len(state'.errors) >= Len(state.errors)
          /\ SubSeq(state'.errors, 1, Len(state.errors)) = state.errors
          /\ Len(state'.errors) - Len(state.errors) =
                Cardinality(FailedSet(outcome') \ FailedSet(outcome))
          /\ Len(state'.errors) = Cardinality(FailedSet(outcome'))
          /\ \A i \in DOMAIN state'.errors :
                state'.errors[i] = OwnError(FailedSteps[i])']_vars

\* a second failure has been appended behind the first
C21_Witness ==
    /\ pc = "ready"
    /\ outcome["tone_analysis"] = "error"
    /\ outcome["research"] = "raised"
    /\ Len(state.errors) = 2
    /\ state.errors[1] = <<"Tone", "analysis", "error:", "timeout">>
    /\ state.errors[2] = <<"Research", "failed:", "tone_analysis", "missing">>

\* C22: the request fields written into the initial state are left unchanged
\* by every stage node and by finalization: from the first node to the
\* returned state of a valid run, tone_sample and topic are the trimmed
\* arguments and language is the language the run was started with.
C22_RequestFieldsKept ==
    (pc \in {"ready", "calling", "returned"} /\ RequestValid) =>
        /\ state.tone_sample = Trimmed(request.tone_sample)
        /\ state.topic = Trimmed(request.topic)
        /\ state.language = LanguageParam(request.language)

\* a run of a padded tone sample has returned with the sample trimmed
C22_Witness ==
    /\ pc = "returned"
    /\ RequestValid
    /\ Len(request.tone_sample) = Len(state.tone_sample) + 2
    /\ state.tone_sample = Letters(MinToneLen)
    /\ state.current_step = "completed"

\* C23: while the stage of step S is executing (current_step = S, status
\* "working"), get_workflow_status reports S as "working", every earlier
\* step that succeeded as "completed" and every later step as "waiting".
C23_StatusWhileExecuting ==
    (pc = "calling" /\ RequestValid /\ state.status = "working") =>
        LET S == state.current_step
            labels == GetWorkflowStatus(state)
        IN  /\ labels[S] = "working"
            /\ \A s \in StepNames :
                  /\ (StepIndex(s) < StepIndex(S) /\ outcome[s] = "success")
                        => labels[s] = "completed"
                  /\ StepIndex(s) > StepIndex(S) => labels[s] = "waiting"

\* the state field that holds the result of step s
FieldOfStep(s) == ResultField(CHOOSE n \in StageNodes : StepOf(n) = s)

C25_ImageStageInputs ==
    (pc \in {"ready", "calling", "returned"} /\ RequestValid) =>
        \A i \in DOMAIN invoked :
            invoked[i].step = "image_generation" =>
                /\ Len(invoked[i].args) = 2
                /\ invoked[i].args[2] = Trimmed(request.topic)
                /\ invoked[i].args[1] =
                      IF outcome["content_creation"] = "success"
                      THEN returns[StepIndex("content_creation")].res.post_content
                      ELSE ""
                /\ \A j \in DOMAIN invoked : invoked[j].step = "image_generation" => j = i

\* the image stage was called with the text the content stage wrote
C25_Witness ==
    /\ pc = "calling"
    /\ node = "generate_image"
    /\ outcome["content_creation"] = "success"
    /\ invoked[Len(invoked)].step = "image_generation"
    /\ invoked[Len(invoked)].args = <<"post", Trimmed(request.topic)>>
    /\ Len(request.topic) > Len(Trimmed(request.topic))

\* C26: when every stage call comes back, a run that has entered the graph
\* reaches finalization and returns; and while a stage call has not come
\* back the run stays at that call: no later stage is entered and
\* finalization is not reached (the orchestrator has no timeout and no other
\* path out of the call).
C26_ReturnsIffStagesComeBack ==
    /\ (pc \in {"ready", "calling"}) ~> (pc = "returned" /\ state.current_step = "completed")
    /\ [][(pc = "calling" /\ Len(returns') = Len(returns)) =>
             /\ pc' = "calling"
             /\ node' = node
             /\ invoked' = invoked
             /\ state'.current_step = state.current_step
             /\ state'.status = "working"]_vars

\* a run has returned after all four stage calls came back
C26_Witness ==
    /\ pc = "returned"
    /\ RequestValid
    /\ Len(returns) = 4
    /\ Len(invoked) = 4
    /\ state.current_step = "completed"

\* the errors entries that come from the node of step s: those that begin
\* with one of the two prefixes that node writes
EntriesOf(s, errors) ==
    LET n == CHOOSE m \in StageNodes : StepOf(m) = s
        Begins(e, p) == Len(e) >= Len(p) /\ SubSeq(e, 1, Len(p)) = p
    IN  {i \in DOMAIN errors :
            Begins(errors[i], ErrorPrefix(n)) \/ Begins(errors[i], FailedPrefix(n))}

\* C27: after every run of a valid request,
\* len(completed_steps) + len(errors) = 4, and each step is in exactly one of
\* the two lists: either in completed_steps or the origin of one errors
\* entry, never both and never neither.
C27_EveryStageInOneList ==
    (pc = "returned" /\ RequestValid) =>
        /\ Len(state.completed_steps) + Len(state.errors) = TotalSteps
        /\ \A s \in StepNames :
              /\ InSeq(s, state.completed_steps) <=> EntriesOf(s, state.errors) = {}
              /\ ~InSeq(s, state.completed_steps) =>
                    Cardinality(EntriesOf(s, state.errors)) = 1

\* two steps in each list, one of the failures a raise
C27_Witness ==
    /\ pc = "returned"
    /\ RequestValid
    /\ state.completed_steps = <<"tone_analysis", "image_generation">>
    /\ Len(state.errors) = 2
    /\ outcome["research"] = "raised"
    /\ outcome["content_creation"] = "error"

\* C28: when a stage call raises instead of returning, the node absorbs it:
\* exactly one "<Stage> failed: <message>" entry is appended to errors, the
\* step is not added to completed_steps, the stage's result field keeps its
\* empty value, and the later stages and finalization still run.
C28_RaiseAbsorbed ==
    (pc \in {"ready", "calling", "returned"} /\ RequestValid) =>
        \A s \in StepNames :
            outcome[s] = "raised" =>
                LET n == CHOOSE m \in StageNodes : StepOf(m) = s
                    entry == FailedPrefix(n) \o returns[StepIndex(s)].msg
                IN  /\ EntriesOf(s, state.errors) = {i \in DOMAIN state.errors :
                                                          state.errors[i] = entry}
                    /\ Cardinality(EntriesOf(s, state.errors)) = 1
                    /\ ~InSeq(s, state.completed_steps)
                    /\ state[ResultField(n)] = EmptyDict
                    /\ pc = "ready" => node = Successor(CHOOSE m \in StageNodes :
                                            StepOf(m) = invoked[Len(invoked)].step)
                    /\ pc = "returned" =>
                          /\ InvokedSteps = StepOrder
                          /\ state.current_step = "completed"
                          /\ state.status \in {"partially_completed", "failed"}

\* the first stage call raised and the three later stages and finalization
\* ran all the same
C28_Witness ==
    /\ pc = "returned"
    /\ RequestValid
    /\ outcome["tone_analysis"] = "raised"
    /\ state.errors = << <<"Tone", "analysis", "failed:", "timeout">> >>
    /\ state.completed_steps = <<"research", "content_creation", "image_generation">>
    /\ state.tone_analysis = EmptyDict
    /\ state.status = "partially_completed"

\* C29: for every state returned by a run started from the front end, the
\* statuses run_workflow_with_real_time_progress writes into agent_statuses
\* (after the reset to "waiting") are the statuses get_workflow_status
\* computes for that returned state, for all four steps.
C29_FrontEndAgreesWithReporter ==
    (pc = "returned" /\ ui.script = "updated") =>
        \A s \in StepNames : ui.agent_statuses[s] = GetWorkflowStatus(state)[s]

\* C30: the front end calls run_workflow only after both API keys were
\* validated and only with inputs that pass the supervisor's own validation
\* (tone sample of 10 characters or more trimmed, topic of 3 or more), so no
\* run started from the front end returns the validation-error state.
C30_FrontEndRunsValidated ==
    /\ ui.script \in {"stopped", "rejected"} => pc = "idle"
    /\ pc # "idle" =>
          /\ ui.script \in {"running", "updated"}
          /\ RequiredKeys \subseteq ui.env
          /\ RequestValid
          /\ ValidationError(request.tone_sample, request.topic) = << >>
          /\ pc # "raised"
          /\ pc = "returned" =>
                /\ state.status \in FinalStatuses
                /\ state.status # "error"
                /\ state.current_step # "error"

\* a run started from the front end with a padded tone sample has returned
C30_Witness ==
    /\ pc = "returned"
    /\ ui.script = "updated"
    /\ ui.env = RequiredKeys
    /\ Len(request.tone_sample) > Len(Trimmed(request.tone_sample))
    /\ state.status = "failed"

====
